---- MODULE Spec2Model ----
(***************************************************************************)
(* State-machine model of the Conviva integration of the Bitmovin player   *)
(* (src/src/ts/ConvivaAnalytics.ts): the session lifecycle controller      *)
(* ConvivaAnalytics, the event registry PlayerEventWrapper and the stall   *)
(* debounce timer.  Every public method and every player-event handler is  *)
(* one action; a handler is an operator from a controller state record to  *)
(* the state record it leaves behind, so that a handler that calls other   *)
(* handlers is the composition of their operators.                         *)
(*                                                                         *)
(* Environment: the player (event source, getSource) and the Conviva       *)
(* client.  createSession returns a fresh session key or the sentinel      *)
(* NO_SESSION_KEY, and getPlayerStateManager a fresh manager.              *)
(* Every call the controller makes on the client, on a player-state        *)
(* manager or on player.off is logged, in order, in `calls` (the log of    *)
(* the operation that ran last).                                           *)
(***************************************************************************)
EXTENDS Integers, Sequences, FiniteSets

\* ------------------------------------------------------------- bounds
\* Number of sessions (and player-state managers) the backend hands out.
MaxSessions == 2
\* Number of handlers added to one event type of a PlayerEventWrapper.
MaxHandlers == 3

\* ---------------------------------------------------------- constants
\* Conviva.Client.NO_SESSION_KEY, the "no session" sentinel.
NO_SESSION_KEY == -2
\* A field the aborted constructor never assigned (JavaScript undefined).
UNDEFINED == -1
\* lastSeenBitrate holding null / undefined.
NO_BITRATE == -1
\* No player-state manager object.
NO_PSM == 0
\* AdBreak.scheduleTime === Infinity (post-roll); larger than every finite time.
INFINITY == 999
\* Absent string / object.
NULL == "null"

\* ------------------------------------------------------------- inputs
NoSource == [loaded |-> FALSE, title |-> NULL]
Sources == {[loaded |-> TRUE, title |-> "Movie"], [loaded |-> TRUE, title |-> NULL]}
\* Metadata overrides a caller passes (a key that is NULL is absent).
OverrideInputs == {[assetName |-> "ovAsset"], [assetName |-> NULL]}
\* targetQuality.bitrate values, in bps.
Bitrates == {499, 1500}
\* AdBreak.scheduleTime values.
ScheduleTimes == {0, 5, INFINITY}
\* player.getDuration() values.
Durations == {5, 10}
\* SeekEvent.seekTarget values, in tenths of a second.
SeekTargets == {15}
Severities == {"FATAL", "WARNING"}

\* ------------------------------------------------------- event wiring
\* registerPlayerEvents: the (event type, callback) pairs in registration order.
Registration ==
  << <<"SourceLoaded", "onSourceLoaded">>, <<"Play", "onPlay">>,
     <<"Playing", "onPlaying">>, <<"Paused", "onPlaybackStateChanged">>,
     <<"StallStarted", "onPlaybackStateChanged">>,
     <<"StallEnded", "onPlaybackStateChanged">>,
     <<"PlaybackFinished", "onPlaybackFinished">>,
     <<"VideoPlaybackQualityChanged", "onVideoQualityChanged">>,
     <<"AudioPlaybackQualityChanged", "onCustomEvent">>,
     <<"Muted", "onCustomEvent">>, <<"Unmuted", "onCustomEvent">>,
     <<"ViewModeChanged", "onCustomEvent">>, <<"CastStarted", "onCustomEvent">>,
     <<"CastStopped", "onCustomEvent">>, <<"AdBreakStarted", "onAdBreakStarted">>,
     <<"AdBreakFinished", "onAdBreakFinished">>, <<"AdSkipped", "onAdSkipped">>,
     <<"AdError", "onAdError">>, <<"SourceUnloaded", "onSourceUnloaded">>,
     <<"Error", "onError">>, <<"Destroy", "onDestroy">>, <<"Seek", "onSeek">>,
     <<"Seeked", "onSeeked">>, <<"TimeShift", "onTimeShift">>,
     <<"TimeShifted", "onTimeShifted">> >>

EventTypes == {Registration[i][1] : i \in 1..Len(Registration)}
CustomEventTypes == {"AudioPlaybackQualityChanged", "Muted", "Unmuted",
                     "ViewModeChanged", "CastStarted", "CastStopped"}

\* ---------------------------------------------------------- variables
VARIABLES
  convivaLoaded,        \* the Conviva script was loaded when the instance was built
  constructed,          \* FALSE when the constructor returned early (inert object)
  released,             \* release()/destroy() has run
  sessionKey,           \* ConvivaAnalytics.sessionKey
  isAd,                 \* ConvivaAnalytics.isAd
  adBreakStartedToFire, \* pending AdBreakEvent: [pending, scheduleTime]
  lastSeenBitrate,      \* kbps, or NO_BITRATE
  playerStateManager,   \* id of the current Conviva.PlayerStateManager, or NO_PSM
  stallTimerArmed,      \* stallTrackingTimout is running
  builder,              \* ContentMetadataBuilder state
  eventHandlers,        \* PlayerEventWrapper.eventHandlers: the entries
                        \* [type, callbacks] in the order the keys were inserted
  listeners,            \* the player's listeners: set of <<type, callback>>
  source,               \* player.getSource()
  nextSessionKey,       \* backend: next key createSession returns
  nextPsm,              \* backend: next manager getPlayerStateManager returns
  openSessions,         \* backend: keys of the sessions created and not cleaned up
  heldOverrides,        \* history: asset-name override given while no session
                        \* was active and not yet used to create a session
  history,              \* history: what the events delivered so far call for
  input,                \* argument a pure function is applied to
  output,               \* what the function returned for it
  calls,                \* backend / player.off calls of the last operation
  last                  \* the last operation: name, inputs observed, outcome

vars == <<convivaLoaded, constructed, released, sessionKey, isAd, adBreakStartedToFire,
          lastSeenBitrate, playerStateManager, stallTimerArmed, builder,
          eventHandlers, listeners, source, nextSessionKey, nextPsm,
          openSessions, heldOverrides, history, input, output, calls, last>>

\* ------------------------------------------------------------ helpers
NoMeta == [assetName |-> NULL]
NoAdBreak == [pending |-> FALSE, scheduleTime |-> 0]

\* One logged call: operation, session key argument, manager it concerns,
\* string argument, numeric argument, content metadata argument.
Call(op, key, psm, arg, n, meta) ==
  [op |-> op, key |-> key, psm |-> psm, arg |-> arg, n |-> n, meta |-> meta]

Log(s, c) == [s EXCEPT !.calls = Append(@, c)]

\* Math.round(x / d) for x >= 0 (round half up).
RoundDiv(x, d) == (2 * x + d) \div (2 * d)

\* Positions of the calls named op in a log.
Positions(log, op) == {i \in 1..Len(log) : log[i].op = op}

\* Positions of the createSession calls that returned a session key.
Created(log) == {i \in Positions(log, "createSession") : log[i].key # NO_SESSION_KEY}

\* ------------------------------------------ ContentMetadataBuilder
\* The builder's two layers (caller overrides, derived values) and the asset
\* name resolved for the running session.
\* Only assetName is tracked: no handler reads any other field back.
NewBuilder ==
  [overrides |-> [assetName |-> NULL], assetName |-> NULL, resolved |-> NULL]

\* setPlaybackStarted(true): the mark is write-only for the controller, and
\* what build() keeps once a session has its asset name is held in resolved.
setPlaybackStarted(b) == b

\* setOverrides(partial): shallow merge, a key present in partial wins.
setOverrides(b, m) ==
  [b EXCEPT !.overrides =
     [assetName |-> IF m.assetName # NULL THEN m.assetName ELSE @.assetName]]

\* The assetName accessor: the override if present, else the derived value.
builderAssetName(b) ==
  IF b.overrides.assetName # NULL THEN b.overrides.assetName ELSE b.assetName

\* The asset name build() resolves: override, else the name already resolved
\* for this session, else the derived value.
resolveAssetName(b) ==
  IF b.overrides.assetName # NULL THEN b.overrides.assetName
  ELSE IF b.resolved # NULL THEN b.resolved ELSE b.assetName

\* build() fails when no asset name can be resolved.
buildFails(b) == resolveAssetName(b) = NULL

\* build(): the builder after the call (asset name resolved) ...
buildState(b) == [b EXCEPT !.resolved = resolveAssetName(b)]
\* ... and the snapshot handed to the backend.
buildSnapshot(b) == [assetName |-> resolveAssetName(b)]

\* reset(): derived and override state cleared.
resetBuilder(b) == NewBuilder

\* ------------------------------------------------ PlayerEventWrapper
\* this.eventHandlers = {}: an object keeps its keys in insertion order, so
\* the registry is the sequence of its entries [type, callbacks].
EmptyHandlers == <<>>

\* Position of the key eventType in the registry (0 when absent).
typeIndex(handlers, type) ==
  IF \E i \in 1..Len(handlers) : handlers[i].type = type
  THEN CHOOSE i \in 1..Len(handlers) : handlers[i].type = type
  ELSE 0

\* this.eventHandlers[eventType], the empty sequence standing for undefined.
handlersOf(handlers, type) ==
  IF typeIndex(handlers, type) = 0 THEN <<>>
  ELSE handlers[typeIndex(handlers, type)].callbacks

\* Array.prototype.indexOf (1-based; 0 when absent).
IndexOf(arr, item) ==
  IF \E i \in 1..Len(arr) : arr[i] = item
  THEN CHOOSE i \in 1..Len(arr) : arr[i] = item /\ \A j \in 1..(i - 1) : arr[j] # item
  ELSE 0

\* ArrayUtils.remove: splice the first occurrence out.
ArrayRemove(arr, item) ==
  LET i == IndexOf(arr, item)
  IN IF i > 0 THEN SubSeq(arr, 1, i - 1) \o SubSeq(arr, i + 1, Len(arr)) ELSE arr

\* PlayerEventWrapper.add
wrapperAdd(s, type, cb) ==
  LET handlers == IF typeIndex(s.eventHandlers, type) = 0
                  THEN Append(s.eventHandlers, [type |-> type, callbacks |-> <<>>])
                  ELSE s.eventHandlers
      i == typeIndex(handlers, type)
  IN [s EXCEPT !.listeners = @ \cup {<<type, cb>>},
               !.eventHandlers = [handlers EXCEPT ![i].callbacks = Append(@, cb)]]

\* PlayerEventWrapper.remove: player.off, then drop it from the registry.
wrapperRemove(s, type, cb) ==
  LET s1 == Log(s, Call("off", NO_SESSION_KEY, NO_PSM, type, 0, NoMeta))
      i == typeIndex(s.eventHandlers, type)
  IN IF i = 0 THEN [s1 EXCEPT !.listeners = @ \ {<<type, cb>>}]
     ELSE [s1 EXCEPT !.listeners = @ \ {<<type, cb>>},
                     !.eventHandlers[i].callbacks = ArrayRemove(@, cb)]

\* The inner for-of loop of clear() over the array of the k-th key: the
\* array iterator re-reads the array's length at every step, while remove()
\* splices the array under it.
RECURSIVE clearType(_, _, _)
clearType(s, k, i) ==
  IF i > Len(s.eventHandlers[k].callbacks) THEN s
  ELSE clearType(wrapperRemove(s, s.eventHandlers[k].type, s.eventHandlers[k].callbacks[i]),
                 k, i + 1)

\* PlayerEventWrapper.clear: the for-in loop over the keys of the registry,
\* in the order they were inserted.
RECURSIVE clearFrom(_, _)
clearFrom(s, k) ==
  IF k > Len(s.eventHandlers) THEN s
  ELSE clearFrom(clearType(s, k, 1), k + 1)

wrapperClear(s) == clearFrom(s, 1)

\* registerPlayerEvents
RECURSIVE registerFrom(_, _)
registerFrom(s, k) ==
  IF k > Len(Registration) THEN s
  ELSE registerFrom(wrapperAdd(s, Registration[k][1], Registration[k][2]), k + 1)

registerPlayerEvents(s) == registerFrom(s, 1)

\* unregisterPlayerEvents
unregisterPlayerEvents(s) == wrapperClear(s)

\* ------------------------------------------------- session lifecycle
\* A handler that has thrown runs no further statement.
Throw(s, what) == [s EXCEPT !.threw = what]
\* logger.consoleLog(..., LogLevel.WARNING)
Warn(s) == [s EXCEPT !.warned = TRUE]

isSessionActive(s) == s.sessionKey # NO_SESSION_KEY

getAssetNameFromSource(src) ==
  IF src.title # NULL THEN src.title ELSE "Untitled (no source.title set)"

\* buildSourceRelatedMetadata(source); reading source.title of no source throws.
buildSourceRelatedMetadata(s, src) ==
  IF ~src.loaded THEN Throw(s, "TypeError")
  ELSE [s EXCEPT !.builder.assetName = getAssetNameFromSource(src)]

buildContentMetadata(s) ==
  IF s.source.loaded THEN buildSourceRelatedMetadata(s, s.source) ELSE s

updateSession(s) ==
  IF ~isSessionActive(s) THEN s
  ELSE IF buildFails(s.builder) THEN Throw(s, "usage")
  ELSE Log([s EXCEPT !.builder = buildState(@)],
           Call("updateContentMetadata", s.sessionKey, NO_PSM, "", 0,
                buildSnapshot(s.builder)))

\* created: whether client.createSession hands out a session key or returns
\* Conviva.Client.NO_SESSION_KEY.
internalInitializeSession(s, created) ==
  LET psm == s.nextPsm
      s1 == Log(Log(Log([s EXCEPT !.playerStateManager = psm, !.nextPsm = @ + 1],
                        Call("getPlayerStateManager", NO_SESSION_KEY, psm, "", 0, NoMeta)),
                    Call("setPlayerType", NO_SESSION_KEY, psm, "Bitmovin Player", 0, NoMeta)),
                Call("setPlayerVersion", NO_SESSION_KEY, psm, "", 0, NoMeta))
      s2 == buildContentMetadata(s1)
  IN IF buildFails(s2.builder) THEN Throw(s2, "usage")
     ELSE
       LET key == IF created THEN s2.nextSessionKey ELSE NO_SESSION_KEY
           s3 == Log([s2 EXCEPT !.builder = buildState(@), !.sessionKey = key,
                                !.nextSessionKey = IF created THEN @ + 1 ELSE @],
                     Call("createSession", key, NO_PSM, "", 0, buildSnapshot(s2.builder)))
           s4 == Log(Log(s3, Call("setPlayerState", NO_SESSION_KEY, psm, "STOPPED", 0, NoMeta)),
                     Call("attachPlayer", key, psm, "", 0, NoMeta))
       IN IF s4.lastSeenBitrate # NO_BITRATE /\ s4.lastSeenBitrate # 0
          THEN Log(s4, Call("setBitrateKbps", NO_SESSION_KEY, psm, "", s4.lastSeenBitrate, NoMeta))
          ELSE s4

\* Variant of internalEndSession: the session is cleaned up before the
\* player is detached.
internalEndSession_cleanupFirst(s) ==
  LET s1 == Log(Log(Log(s,
                Call("cleanupSession", s.sessionKey, NO_PSM, "", 0, NoMeta)),
                Call("detachPlayer", s.sessionKey, NO_PSM, "", 0, NoMeta)),
                Call("releasePlayerStateManager", NO_SESSION_KEY, s.playerStateManager,
                     "", 0, NoMeta))
  IN [s1 EXCEPT !.sessionKey = NO_SESSION_KEY,
                !.builder = resetBuilder(@),
                !.lastSeenBitrate = NO_BITRATE]

internalEndSession(s) ==
  LET s1 == Log(Log(Log(s,
                Call("detachPlayer", s.sessionKey, NO_PSM, "", 0, NoMeta)),
                Call("cleanupSession", s.sessionKey, NO_PSM, "", 0, NoMeta)),
                Call("releasePlayerStateManager", NO_SESSION_KEY, s.playerStateManager,
                     "", 0, NoMeta))
  IN [s1 EXCEPT !.sessionKey = NO_SESSION_KEY,
                !.builder = resetBuilder(@),
                !.lastSeenBitrate = NO_BITRATE]

\* ---------------------------------------------------- public methods
\* Variant of initializeSession: the running session is not checked for.
initializeSession_noActiveGuard(s, created) ==
  IF ~s.source.loaded /\ builderAssetName(s.builder) = NULL THEN Throw(s, "usage")
  ELSE internalInitializeSession(s, created)

\* Variant of initializeSession: a running session is a thrown error.
initializeSession_throwsWhenActive(s, created) ==
  IF isSessionActive(s) THEN Throw(s, "usage")
  ELSE IF ~s.source.loaded /\ builderAssetName(s.builder) = NULL THEN Throw(s, "usage")
  ELSE internalInitializeSession(s, created)

initializeSession(s, created) ==
  IF isSessionActive(s) THEN Warn(s)
  ELSE IF ~s.source.loaded /\ builderAssetName(s.builder) = NULL THEN Throw(s, "usage")
  ELSE internalInitializeSession(s, created)

endSession(s) ==
  IF ~isSessionActive(s) THEN s ELSE internalEndSession(s)

sendCustomApplicationEvent(s, name) ==
  Log(s, Call("sendCustomEvent", NO_SESSION_KEY, NO_PSM, name, 0, NoMeta))

\* Variant of sendCustomPlaybackEvent: sent whether or not a session is active.
sendCustomPlaybackEvent_noGuard(s, name) ==
  Log(s, Call("sendCustomEvent", s.sessionKey, NO_PSM, name, 0, NoMeta))

sendCustomPlaybackEvent(s, name) ==
  IF ~isSessionActive(s) THEN Warn(s)
  ELSE Log(s, Call("sendCustomEvent", s.sessionKey, NO_PSM, name, 0, NoMeta))

\* Variant of updateContentMetadata: no early return without a session.
updateContentMetadata_noGuard(s, m) ==
  updateSession(buildContentMetadata([s EXCEPT !.builder = setOverrides(@, m)]))

updateContentMetadata(s, m) ==
  LET s1 == [s EXCEPT !.builder = setOverrides(@, m)]
  IN IF ~isSessionActive(s1) THEN Warn(s1)
     ELSE updateSession(buildContentMetadata(s1))

\* Variant of reportPlaybackDeficiency: the endSession flag is ignored.
reportPlaybackDeficiency_alwaysEnds(s, severity, end) ==
  IF ~isSessionActive(s) THEN s
  ELSE internalEndSession(
         Log(s, Call("reportError", s.sessionKey, NO_PSM, severity, 0, NoMeta)))

reportPlaybackDeficiency(s, severity, end) ==
  IF ~isSessionActive(s) THEN s
  ELSE LET s1 == Log(s, Call("reportError", s.sessionKey, NO_PSM, severity, 0, NoMeta))
       IN IF end THEN internalEndSession(s1) ELSE s1

pauseTracking(s) ==
  Log(Log(s, Call("adStart", s.sessionKey, NO_PSM, "SEPARATE:PREROLL", 0, NoMeta)),
      Call("detachPlayer", s.sessionKey, NO_PSM, "", 0, NoMeta))

resumeTracking(s) ==
  Log(Log(s, Call("attachPlayer", s.sessionKey, s.playerStateManager, "", 0, NoMeta)),
      Call("adEnd", s.sessionKey, NO_PSM, "", 0, NoMeta))

\* Variant of destroy: the session is ended before the handlers are removed.
destroy_endsFirst(s) ==
  LET s1 == internalEndSession(s)
      s2 == unregisterPlayerEvents(s1)
      s3 == Log(Log(s2, Call("client.release", NO_SESSION_KEY, NO_PSM, "", 0, NoMeta)),
                Call("systemFactory.release", NO_SESSION_KEY, NO_PSM, "", 0, NoMeta))
  IN [s3 EXCEPT !.released = TRUE]

destroy(s) ==
  LET s1 == unregisterPlayerEvents(s)
      s2 == internalEndSession(s1)
      s3 == Log(Log(s2, Call("client.release", NO_SESSION_KEY, NO_PSM, "", 0, NoMeta)),
                Call("systemFactory.release", NO_SESSION_KEY, NO_PSM, "", 0, NoMeta))
  IN [s3 EXCEPT !.released = TRUE]

release(s) == destroy(s)

\* ----------------------------------------------------- event handlers
\* Variant of mapAdPosition: an ad break scheduled exactly at the duration
\* counts as a mid-roll.
mapAdPosition_strict(scheduleTime, duration) ==
  IF scheduleTime <= 0 THEN "PREROLL"
  ELSE IF scheduleTime > duration THEN "POSTROLL"
  ELSE "MIDROLL"

mapAdPosition(scheduleTime, duration) ==
  IF scheduleTime <= 0 THEN "PREROLL"
  ELSE IF scheduleTime >= duration THEN "POSTROLL"
  ELSE "MIDROLL"

trackAdBreakStarted(s, scheduleTime, duration) ==
  LET s1 == [s EXCEPT !.isAd = TRUE]
      adPosition == mapAdPosition(scheduleTime, duration)
  IN IF ~isSessionActive(s1) THEN s1
     ELSE Log(s1, Call("adStart", s1.sessionKey, NO_PSM, "CONTENT:" \o adPosition, 0, NoMeta))

\* playerStateManager.setPlayerState(playerState)
reportPlayerState(s, playerState) ==
  Log(s, Call("setPlayerState", NO_SESSION_KEY, s.playerStateManager, playerState, 0, NoMeta))

\* onPlaybackStateChanged(event); playing is player.isPlaying(), duration is
\* player.getDuration(), both read only on the branches that use them.
onPlaybackStateChanged(s, type, playing, duration) ==
  IF s.isAd \/ ~isSessionActive(s) THEN s
  ELSE IF type \in {"Play", "Seek", "TimeShift"}
    THEN [s EXCEPT !.stallTimerArmed = TRUE]
  ELSE IF type = "StallStarted"
    THEN reportPlayerState([s EXCEPT !.stallTimerArmed = FALSE], "BUFFERING")
  ELSE IF type = "Playing"
    THEN LET s1 == [s EXCEPT !.stallTimerArmed = FALSE]
             s2 == IF s1.adBreakStartedToFire.pending
                   THEN [trackAdBreakStarted(s1, s1.adBreakStartedToFire.scheduleTime, duration)
                           EXCEPT !.adBreakStartedToFire = NoAdBreak]
                   ELSE s1
         IN reportPlayerState(s2, "PLAYING")
  ELSE IF type = "Paused"
    THEN reportPlayerState([s EXCEPT !.stallTimerArmed = FALSE], "PAUSED")
  ELSE IF type \in {"Seeked", "TimeShifted", "StallEnded"}
    THEN reportPlayerState([s EXCEPT !.stallTimerArmed = FALSE],
                           IF playing THEN "PLAYING" ELSE "PAUSED")
  ELSE IF type = "PlaybackFinished"
    THEN reportPlayerState([s EXCEPT !.stallTimerArmed = FALSE], "STOPPED")
  ELSE s

onSourceLoaded(s) ==
  IF ~isSessionActive(s) THEN s
  ELSE LET s1 == buildSourceRelatedMetadata(s, s.source)
       IN IF s1.threw # "none" THEN s1 ELSE updateSession(s1)

onPlay(s, created) ==
  IF s.isAd THEN s
  ELSE LET s1 == IF ~isSessionActive(s) THEN internalInitializeSession(s, created) ELSE s
       IN IF s1.threw # "none" THEN s1
          ELSE onPlaybackStateChanged(s1, "Play", FALSE, 0)

onPlaying(s, duration) ==
  LET s1 == updateSession([s EXCEPT !.builder = setPlaybackStarted(@)])
  IN IF s1.threw # "none" THEN s1
     ELSE onPlaybackStateChanged(s1, "Playing", FALSE, duration)

onPlaybackFinished(s) ==
  IF ~isSessionActive(s) THEN s
  ELSE internalEndSession(onPlaybackStateChanged(s, "PlaybackFinished", FALSE, 0))

onVideoQualityChanged(s, bitrate) ==
  LET bitrateKbps == RoundDiv(bitrate, 1000)
  IN IF ~isSessionActive(s) THEN [s EXCEPT !.lastSeenBitrate = bitrateKbps]
     ELSE Log([s EXCEPT !.lastSeenBitrate = NO_BITRATE],
              Call("setBitrateKbps", NO_SESSION_KEY, s.playerStateManager, "",
                   bitrateKbps, NoMeta))

onCustomEvent(s, type) ==
  IF ~isSessionActive(s) THEN s ELSE sendCustomPlaybackEvent(s, type)

onAdBreakFinished(s) ==
  LET s1 == [s EXCEPT !.isAd = FALSE]
  IN IF ~isSessionActive(s1) THEN s1
     ELSE Log(s1, Call("adEnd", s1.sessionKey, NO_PSM, "", 0, NoMeta))

onAdSkipped(s) == onCustomEvent(s, "AdSkipped")

onAdError(s) == onCustomEvent(s, "AdError")

\* trackSeekStart(target): target in tenths of a second, rounded to seconds.
trackSeekStart(s, tenths) ==
  Log(s, Call("setPlayerSeekStart", NO_SESSION_KEY, s.playerStateManager, "",
              RoundDiv(tenths, 10), NoMeta))

trackSeekEnd(s) ==
  Log(s, Call("setPlayerSeekEnd", NO_SESSION_KEY, s.playerStateManager, "", 0, NoMeta))

onSeek(s, seekTarget) ==
  IF ~isSessionActive(s) THEN s
  ELSE onPlaybackStateChanged(trackSeekStart(s, seekTarget), "Seek", FALSE, 0)

onSeeked(s, playing) ==
  IF ~isSessionActive(s) THEN s
  ELSE onPlaybackStateChanged(trackSeekEnd(s), "Seeked", playing, 0)

onTimeShift(s) ==
  IF ~isSessionActive(s) THEN s
  ELSE onPlaybackStateChanged(trackSeekStart(s, -10), "TimeShift", FALSE, 0)

onTimeShifted(s, playing) ==
  IF ~isSessionActive(s) THEN s
  ELSE onPlaybackStateChanged(trackSeekEnd(s), "TimeShifted", playing, 0)

\* Variant of onError: no session is created for the report.
onError_noInit(s, created) == reportPlaybackDeficiency(s, "FATAL", TRUE)

onError(s, created) ==
  LET s1 == IF ~isSessionActive(s) THEN internalInitializeSession(s, created) ELSE s
  IN IF s1.threw # "none" THEN s1
     ELSE reportPlaybackDeficiency(s1, "FATAL", TRUE)

\* Variant of onSourceUnloaded: the session is ended during ads as well.
onSourceUnloaded_ignoresAd(s) == internalEndSession(s)

onSourceUnloaded(s) ==
  IF s.isAd THEN s ELSE internalEndSession(s)

onDestroy(s) == destroy(s)

\* Variant of onAdBreakStarted: an ad break at the end of the stream is
\* handled like any other.
onAdBreakStarted_noPostRoll(s, scheduleTime, duration) ==
  IF ~isSessionActive(s)
    THEN [s EXCEPT !.adBreakStartedToFire = [pending |-> TRUE, scheduleTime |-> scheduleTime]]
  ELSE trackAdBreakStarted(s, scheduleTime, duration)

\* Variant of onAdBreakStarted: an ad break is tracked at once, session or not.
onAdBreakStarted_noDefer(s, scheduleTime, duration) ==
  IF scheduleTime = INFINITY THEN onPlaybackFinished(s)
  ELSE trackAdBreakStarted(s, scheduleTime, duration)

onAdBreakStarted(s, scheduleTime, duration) ==
  IF scheduleTime = INFINITY THEN onPlaybackFinished(s)
  ELSE IF ~isSessionActive(s)
    THEN [s EXCEPT !.adBreakStartedToFire = [pending |-> TRUE, scheduleTime |-> scheduleTime]]
  ELSE trackAdBreakStarted(s, scheduleTime, duration)

\* The stallTrackingTimout callback.
stallTimerCallback(s) ==
  reportPlayerState([s EXCEPT !.stallTimerArmed = FALSE], "BUFFERING")

\* -------------------------------------------------------- constructor
\* The fields before the constructor body runs: nothing assigned, the stall
\* timer created (a field initialiser) and not running.
Blank(src) ==
  [released |-> FALSE, sessionKey |-> UNDEFINED, isAd |-> FALSE,
   adBreakStartedToFire |-> NoAdBreak, lastSeenBitrate |-> NO_BITRATE,
   playerStateManager |-> NO_PSM, stallTimerArmed |-> FALSE, builder |-> NewBuilder,
   eventHandlers |-> EmptyHandlers, listeners |-> {}, source |-> src,
   nextSessionKey |-> 1, nextPsm |-> 1,
   calls |-> <<>>, threw |-> "none", warned |-> FALSE]

\* Whether the constructor runs to its end: the Conviva script is loaded and
\* the player has no source yet.
constructorCompletes(convivaDefined, src) == convivaDefined /\ ~src.loaded

constructor(convivaDefined, src) ==
  IF ~constructorCompletes(convivaDefined, src) THEN Blank(src)
  ELSE registerPlayerEvents([Blank(src) EXCEPT !.sessionKey = NO_SESSION_KEY])

\* ------------------------------------------------------- transitions
\* The current state as the record the handlers work on, with an empty log.
State ==
  [released |-> released, sessionKey |-> sessionKey, isAd |-> isAd,
   adBreakStartedToFire |-> adBreakStartedToFire, lastSeenBitrate |-> lastSeenBitrate,
   playerStateManager |-> playerStateManager, stallTimerArmed |-> stallTimerArmed,
   builder |-> builder, eventHandlers |-> eventHandlers, listeners |-> listeners,
   source |-> source, nextSessionKey |-> nextSessionKey, nextPsm |-> nextPsm,
   calls |-> <<>>, threw |-> "none", warned |-> FALSE]

\* The fields of the controller (and its registrations on the player).
Controller(s) ==
  <<s.released, s.sessionKey, s.isAd, s.adBreakStartedToFire, s.lastSeenBitrate,
    s.playerStateManager, s.stallTimerArmed, s.builder, s.eventHandlers, s.listeners>>

\* Nothing has been delivered yet.
NoHistory ==
  [adBreakWait |-> "none", stallResolved |-> FALSE, stash |-> NO_BITRATE,
   adOpen |-> FALSE]

\* The part of a state that the record of an operation keeps of the state
\* the operation started in.
Pre(s, held, h) ==
  [sessionKey |-> s.sessionKey, isAd |-> s.isAd,
   adBreakStartedToFire |-> s.adBreakStartedToFire,
   lastSeenBitrate |-> s.lastSeenBitrate, playerStateManager |-> s.playerStateManager,
   stallTimerArmed |-> s.stallTimerArmed, builder |-> s.builder, source |-> s.source,
   released |-> s.released, heldOverrides |-> held, history |-> h]

\* What is remembered of the operation that ran: its name and inputs, whether
\* the callback was registered, how it ended, the state it started in and
\* whether it left the controller as it found it.
Last(op, arg, flag, delivered, pre, r) ==
  [op |-> op, arg |-> arg, flag |-> flag, delivered |-> delivered,
   threw |-> r.threw, warned |-> r.warned,
   pre |-> Pre(pre, heldOverrides, history),
   unchanged |-> Controller(r) = Controller(pre)]

\* Between two operations the event loop is idle: nothing is running and the
\* log of the operation that ran last has been read.
IdleLast ==
  [op |-> "idle", arg |-> "", flag |-> FALSE, delivered |-> FALSE,
   threw |-> "none", warned |-> FALSE,
   pre |-> Pre(Blank(NoSource), NULL, NoHistory), unchanged |-> TRUE]

Idle == last.op = "idle"

\* The backend's session table after the calls of a log: createSession opens
\* a session, cleanupSession closes the one it names.
RECURSIVE openAfter(_, _, _)
openAfter(open, log, i) ==
  IF i > Len(log) THEN open
  ELSE openAfter(IF log[i].op = "createSession" /\ log[i].key # NO_SESSION_KEY
                   THEN open \cup {log[i].key}
                 ELSE IF log[i].op = "cleanupSession" THEN open \ {log[i].key}
                 ELSE open,
                 log, i + 1)

\* The override held for the next session: used up by a createSession, set
\* by an updateContentMetadata that found no session active.
heldAfter(held, l, r) ==
  IF Created(r.calls) # {} THEN NULL
  ELSE IF l.op = "updateContentMetadata" /\ r.threw = "none"
          /\ l.pre.sessionKey = NO_SESSION_KEY /\ l.arg # NULL
    THEN l.arg
  ELSE held

\* A pre-roll ad break announced while no session was active waits for a
\* playing event: "fresh" until the first playing event delivered after it,
\* "stale" when that event found no session or an ad running, "expired" once
\* an ad-break-finished event was delivered or a session was ended while it
\* waited, "none" once a playing event was handled with a session active and
\* no ad running.
waitAfter(wait, l, r) ==
  IF l.op = "AdBreakStarted" /\ l.delivered /\ l.arg # "postroll"
     /\ l.pre.sessionKey = NO_SESSION_KEY
    THEN "fresh"
  ELSE IF l.op = "Playing" /\ l.delivered
    THEN IF l.pre.sessionKey # NO_SESSION_KEY /\ ~l.pre.isAd THEN "none"
         ELSE IF wait = "fresh" THEN "stale" ELSE wait
  ELSE IF wait # "none"
          /\ \/ l.op = "AdBreakFinished" /\ l.delivered
             \/ \E i \in Positions(r.calls, "cleanupSession") :
                   r.calls[i].key # NO_SESSION_KEY
    THEN "expired"
  ELSE wait

\* The events that start the debounce window and those that resolve it.
ArmingEvents == {"Play", "Seek", "TimeShift"}
ResolvingEvents == {"Seeked", "TimeShifted", "Playing", "Paused", "StallEnded"}

\* While the stall timer is running: whether a resolving event has been
\* delivered since the last play, seek or time-shift event.
resolvedAfter(resolved, l, r) ==
  IF ~r.stallTimerArmed THEN FALSE
  ELSE IF l.op \in ArmingEvents /\ l.delivered THEN FALSE
  ELSE IF l.op \in ResolvingEvents /\ l.delivered THEN TRUE
  ELSE resolved

\* The bitrate (kbps) of the last quality change delivered while no session
\* was active, until a session is created.
stashAfter(stash, l, r) ==
  IF Created(r.calls) # {} THEN NO_BITRATE
  ELSE IF l.op = "VideoPlaybackQualityChanged" /\ l.delivered
          /\ l.pre.sessionKey = NO_SESSION_KEY
    THEN RoundDiv(l.arg, 1000)
  ELSE stash

\* Whether an ad-break handler has issued adStart for the running session
\* and no ad-break handler has issued adEnd for it since.
adOpenAfter(open, l, r) ==
  IF Positions(r.calls, "createSession") # {} \/ Positions(r.calls, "cleanupSession") # {}
    THEN FALSE
  ELSE IF l.op \in {"AdBreakStarted", "Playing"} /\ Positions(r.calls, "adStart") # {}
    THEN TRUE
  ELSE IF l.op = "AdBreakFinished" /\ Positions(r.calls, "adEnd") # {}
    THEN FALSE
  ELSE open

historyAfter(h, l, r) ==
  [adBreakWait |-> waitAfter(h.adBreakWait, l, r),
   stallResolved |-> resolvedAfter(h.stallResolved, l, r),
   stash |-> stashAfter(h.stash, l, r),
   adOpen |-> adOpenAfter(h.adOpen, l, r)]

\* An operation has run to completion and leaves the state r; the backend hands out at most MaxSessions keys and managers.
Commit(r, l) ==
  /\ r.nextPsm <= MaxSessions + 1
  /\ r.nextSessionKey <= MaxSessions + 1
  /\ released' = r.released
  /\ sessionKey' = r.sessionKey
  /\ isAd' = r.isAd
  /\ adBreakStartedToFire' = r.adBreakStartedToFire
  /\ lastSeenBitrate' = r.lastSeenBitrate
  /\ playerStateManager' = r.playerStateManager
  /\ stallTimerArmed' = r.stallTimerArmed
  /\ builder' = r.builder
  /\ eventHandlers' = r.eventHandlers
  /\ listeners' = r.listeners
  /\ source' = r.source
  /\ nextSessionKey' = r.nextSessionKey
  /\ nextPsm' = r.nextPsm
  /\ openSessions' = openAfter(openSessions, r.calls, 1)
  /\ heldOverrides' = heldAfter(heldOverrides, l, r)
  /\ history' = historyAfter(history, l, r)
  /\ calls' = r.calls
  /\ last' = l
  /\ UNCHANGED <<convivaLoaded, constructed, input, output>>

\* A public method called by the application, on a released instance as on
\* any other.  On an inert instance every method dereferences an unassigned
\* field (logger, config, client, handlers, contentMetadataBuilder) first.
\* The methods that start with isSessionActive() read Conviva.Client first,
\* which is a ReferenceError while the Conviva script is not loaded.
SessionCheckFirst ==
  {"initializeSession", "endSession", "sendCustomPlaybackEvent", "reportPlaybackDeficiency"}

inertFailure(op) ==
  IF ~convivaLoaded /\ op \in SessionCheckFirst THEN "ReferenceError" ELSE "TypeError"

PublicResult(op, r) == IF constructed THEN r ELSE Throw(State, inertFailure(op))

Public(op, arg, flag, r) ==
  /\ Idle
  /\ \E res \in {PublicResult(op, r)} :
       Commit(res, Last(op, arg, flag, TRUE, State, res))

\* The player emits an event of the given type; the callback runs when it is
\* (still) registered for that type.  pre is the state the player is in when
\* it emits the event, r the state the callback leaves.
Registered(type) == \E l \in listeners : l[1] = type

Emit(type, arg, pre, r) ==
  /\ Idle
  /\ \E res \in {IF Registered(type) THEN r ELSE pre} :
       Commit(res, Last(type, arg, FALSE, Registered(type), State, res))

\* ----------------------------------------------------------- actions
\* Public methods.
InitializeSession ==
  \E created \in BOOLEAN :
    Public("initializeSession", "", FALSE, initializeSession(State, created))

EndSession ==
  Public("endSession", "", FALSE, endSession(State))

SendCustomApplicationEvent ==
  Public("sendCustomApplicationEvent", "", FALSE, sendCustomApplicationEvent(State, "appEvent"))

SendCustomPlaybackEvent ==
  Public("sendCustomPlaybackEvent", "", FALSE, sendCustomPlaybackEvent(State, "playbackEvent"))

UpdateContentMetadata ==
  \E m \in OverrideInputs :
    Public("updateContentMetadata", m.assetName, FALSE, updateContentMetadata(State, m))

ReportPlaybackDeficiency ==
  \E severity \in Severities, end \in BOOLEAN :
    Public("reportPlaybackDeficiency", severity, end,
           reportPlaybackDeficiency(State, severity, end))

PauseTracking ==
  Public("pauseTracking", "", FALSE, pauseTracking(State))

ResumeTracking ==
  Public("resumeTracking", "", FALSE, resumeTracking(State))

Release ==
  Public("release", "", FALSE, release(State))

\* Player events.  player.load(source) sets the source the SourceLoaded
\* event reports; player.unload() clears it before SourceUnloaded.
SourceLoaded ==
  \E src \in Sources :
    LET pre == [State EXCEPT !.source = src]
    IN Emit("SourceLoaded", "", pre, onSourceLoaded(pre))

SourceUnloaded ==
  LET pre == [State EXCEPT !.source = NoSource]
  IN Emit("SourceUnloaded", "", pre, onSourceUnloaded(pre))

Play ==
  \E created \in BOOLEAN : Emit("Play", "", State, onPlay(State, created))

Playing ==
  \E duration \in Durations : Emit("Playing", "", State, onPlaying(State, duration))

Paused ==
  Emit("Paused", "", State, onPlaybackStateChanged(State, "Paused", FALSE, 0))

StallStarted ==
  Emit("StallStarted", "", State, onPlaybackStateChanged(State, "StallStarted", FALSE, 0))

StallEnded ==
  \E playing \in BOOLEAN :
    Emit("StallEnded", "", State, onPlaybackStateChanged(State, "StallEnded", playing, 0))

PlaybackFinished ==
  Emit("PlaybackFinished", "", State, onPlaybackFinished(State))

VideoPlaybackQualityChanged ==
  \E bitrate \in Bitrates :
    Emit("VideoPlaybackQualityChanged", bitrate, State, onVideoQualityChanged(State, bitrate))

CustomEvent ==
  \E type \in CustomEventTypes : Emit(type, "", State, onCustomEvent(State, type))

AdBreakStarted ==
  \E scheduleTime \in ScheduleTimes, duration \in Durations :
    Emit("AdBreakStarted", IF scheduleTime = INFINITY THEN "postroll" ELSE "",
         State, onAdBreakStarted(State, scheduleTime, duration))

AdBreakFinished ==
  Emit("AdBreakFinished", "", State, onAdBreakFinished(State))

AdSkipped == Emit("AdSkipped", "", State, onAdSkipped(State))

AdError == Emit("AdError", "", State, onAdError(State))

Error ==
  \E created \in BOOLEAN : Emit("Error", "", State, onError(State, created))

Destroy == Emit("Destroy", "", State, onDestroy(State))

Seek ==
  \E seekTarget \in SeekTargets : Emit("Seek", "", State, onSeek(State, seekTarget))

Seeked ==
  \E playing \in BOOLEAN : Emit("Seeked", "", State, onSeeked(State, playing))

TimeShift == Emit("TimeShift", "", State, onTimeShift(State))

TimeShifted ==
  \E playing \in BOOLEAN : Emit("TimeShifted", "", State, onTimeShifted(State, playing))

\* The debounce window elapses while the stall timer is running.
StallTimerFires ==
  /\ Idle
  /\ stallTimerArmed
  /\ \E res \in {stallTimerCallback(State)} :
       Commit(res, Last("stallTimer", "", FALSE, TRUE, State, res))

\* The operation has returned to the event loop.
Return ==
  /\ ~Idle
  /\ last' = IdleLast
  /\ calls' = <<>>
  /\ UNCHANGED <<convivaLoaded, constructed, released, sessionKey, isAd, adBreakStartedToFire,
                 lastSeenBitrate, playerStateManager, stallTimerArmed, builder,
                 eventHandlers, listeners, source, nextSessionKey, nextPsm,
                 openSessions, heldOverrides, history, input, output>>

\* ------------------------------------------------------ specification
Init ==
  \E convivaDefined \in BOOLEAN, src \in {NoSource} \cup Sources :
    LET s == constructor(convivaDefined, src)
    IN /\ convivaLoaded = convivaDefined
       /\ constructed = constructorCompletes(convivaDefined, src)
       /\ released = s.released
       /\ sessionKey = s.sessionKey
       /\ isAd = s.isAd
       /\ adBreakStartedToFire = s.adBreakStartedToFire
       /\ lastSeenBitrate = s.lastSeenBitrate
       /\ playerStateManager = s.playerStateManager
       /\ stallTimerArmed = s.stallTimerArmed
       /\ builder = s.builder
       /\ eventHandlers = s.eventHandlers
       /\ listeners = s.listeners
       /\ source = s.source
       /\ nextSessionKey = s.nextSessionKey
       /\ nextPsm = s.nextPsm
       /\ openSessions = {}
       /\ heldOverrides = NULL
       /\ history = NoHistory
       /\ input = <<>>
       /\ output = <<>>
       /\ calls = <<>>
       /\ last = [op |-> "constructor", arg |-> "", flag |-> FALSE, delivered |-> TRUE,
                   threw |-> "none", warned |-> FALSE,
                   pre |-> Pre(Blank(src), NULL, NoHistory), unchanged |-> FALSE]

Next ==
  \/ InitializeSession
  \/ EndSession
  \/ SendCustomApplicationEvent
  \/ SendCustomPlaybackEvent
  \/ UpdateContentMetadata
  \/ ReportPlaybackDeficiency
  \/ PauseTracking
  \/ ResumeTracking
  \/ Release
  \/ SourceLoaded
  \/ SourceUnloaded
  \/ Play
  \/ Playing
  \/ Paused
  \/ StallStarted
  \/ StallEnded
  \/ PlaybackFinished
  \/ VideoPlaybackQualityChanged
  \/ CustomEvent
  \/ AdBreakStarted
  \/ AdBreakFinished
  \/ AdSkipped
  \/ AdError
  \/ Error
  \/ Destroy
  \/ Seek
  \/ Seeked
  \/ TimeShift
  \/ TimeShifted
  \/ StallTimerFires
  \/ Return

Spec == Init /\ [][Next]_vars

\* ------------------------------------- PlayerEventWrapper on its own
\* A PlayerEventWrapper used directly: callbacks are added to and removed
\* from a few event types, and the registry is cleared.
WrapperTypes == {"Play", "Seek"}
Callbacks == {"cbA", "cbB", "cbC"}

\* A registry operation has run and leaves the state r.
WrapperCommit(r, l) ==
  /\ eventHandlers' = r.eventHandlers
  /\ listeners' = r.listeners
  /\ calls' = r.calls
  /\ last' = l
  /\ UNCHANGED <<convivaLoaded, constructed, released, sessionKey, isAd,
                 adBreakStartedToFire, lastSeenBitrate, playerStateManager,
                 stallTimerArmed, builder, source, nextSessionKey, nextPsm,
                 openSessions, heldOverrides, history, input, output>>

\* add(eventType, callback), of a callback already registered for the type
\* as of a new one; at most MaxHandlers entries per event type.
WrapperAdd ==
  \E type \in WrapperTypes, cb \in Callbacks :
    /\ Len(handlersOf(eventHandlers, type)) < MaxHandlers
    /\ \E res \in {wrapperAdd(State, type, cb)} :
         WrapperCommit(res, Last("add", type, FALSE, TRUE, State, res))

\* remove(eventType, callback)
WrapperRemove ==
  \E type \in WrapperTypes, cb \in Callbacks :
    \E res \in {wrapperRemove(State, type, cb)} :
      WrapperCommit(res, Last("remove", type, FALSE, TRUE, State, res))

\* clear(); the record keeps whether the operation before it was a clear().
WrapperClear ==
  \E res \in {wrapperClear(State)} :
    WrapperCommit(res, Last("clear", "", last.op = "clear", TRUE, State, res))

\* new PlayerEventWrapper(player): an empty registry.
WrapperInit ==
  LET s == [Blank(NoSource) EXCEPT !.sessionKey = NO_SESSION_KEY]
  IN /\ convivaLoaded = TRUE
     /\ constructed = TRUE
     /\ released = s.released
     /\ sessionKey = s.sessionKey
     /\ isAd = s.isAd
     /\ adBreakStartedToFire = s.adBreakStartedToFire
     /\ lastSeenBitrate = s.lastSeenBitrate
     /\ playerStateManager = s.playerStateManager
     /\ stallTimerArmed = s.stallTimerArmed
     /\ builder = s.builder
     /\ eventHandlers = EmptyHandlers
     /\ listeners = {}
     /\ source = s.source
     /\ nextSessionKey = s.nextSessionKey
     /\ nextPsm = s.nextPsm
     /\ openSessions = {}
     /\ heldOverrides = NULL
     /\ history = NoHistory
     /\ input = <<>>
     /\ output = <<>>
     /\ calls = <<>>
     /\ last = [op |-> "new", arg |-> "", flag |-> FALSE, delivered |-> TRUE,
                threw |-> "none", warned |-> FALSE,
                pre |-> Pre(s, NULL, NoHistory), unchanged |-> FALSE]

WrapperNext ==
  \/ WrapperAdd
  \/ WrapperRemove
  \/ WrapperClear

WrapperSpec == WrapperInit /\ [][WrapperNext]_vars

\* --------------------------------------------- pure functions on their own
\* The controller's own state while a pure function is looked at: a freshly
\* constructed instance that nothing is delivered to.
ControllerUntouched ==
  LET s == constructor(TRUE, NoSource)
  IN /\ convivaLoaded = TRUE
     /\ constructed = TRUE
     /\ released = s.released
     /\ sessionKey = s.sessionKey
     /\ isAd = s.isAd
     /\ adBreakStartedToFire = s.adBreakStartedToFire
     /\ lastSeenBitrate = s.lastSeenBitrate
     /\ playerStateManager = s.playerStateManager
     /\ stallTimerArmed = s.stallTimerArmed
     /\ builder = s.builder
     /\ eventHandlers = s.eventHandlers
     /\ listeners = s.listeners
     /\ source = s.source
     /\ nextSessionKey = s.nextSessionKey
     /\ nextPsm = s.nextPsm
     /\ openSessions = {}
     /\ heldOverrides = NULL
     /\ history = NoHistory
     /\ calls = <<>>
     /\ last = IdleLast

\* A function has been applied to the input and has returned out.
Returned(name, out) ==
  /\ last.op = "idle"
  /\ output' = out
  /\ last' = [IdleLast EXCEPT !.op = name]
  /\ UNCHANGED <<convivaLoaded, constructed, released, sessionKey, isAd,
                 adBreakStartedToFire, lastSeenBitrate, playerStateManager,
                 stallTimerArmed, builder, eventHandlers, listeners, source,
                 nextSessionKey, nextPsm, openSessions, heldOverrides, history,
                 input, calls>>

\* AdBreak.scheduleTime and player.getDuration() values for mapAdPosition:
\* negative, zero, inside, at and beyond the duration, and Infinity for both.
MaxScheduleTime == 12

MaxAdDuration == 10

AdScheduleTimes == (-2..MaxScheduleTime) \cup {INFINITY}

AdDurations == (0..MaxAdDuration) \cup {INFINITY}

AdPositionInit ==
  /\ ControllerUntouched
  /\ input \in AdScheduleTimes \X AdDurations
  /\ output = <<>>

ApplyMapAdPosition == Returned("mapAdPosition", mapAdPosition(input[1], input[2]))

AdPositionNext == ApplyMapAdPosition

AdPositionSpec == AdPositionInit /\ [][AdPositionNext]_vars

\* ObjectUtils.flatten.  An object maps property keys to values; a value is
\* a number (a non-object leaf) or a nested object.
MaxDepth == 1

PropertyKeys == {"timestamp", "target"}

LeafValues == {0, 12}

Leaf(n) == [isObject |-> FALSE, value |-> n, props |-> <<>>]

Nested(object) == [isObject |-> TRUE, value |-> 0, props |-> object]

RECURSIVE Objects(_)
Objects(depth) ==
  LET values == {Leaf(n) : n \in LeafValues}
                \cup (IF depth = 0 THEN {}
                      ELSE {Nested(o) : o \in Objects(depth - 1)})
  IN UNION {[K -> values] : K \in SUBSET PropertyKeys}

\* String(value) of a non-negative integer: its decimal digits.
Digits == <<"0", "1", "2", "3", "4", "5", "6", "7", "8", "9">>

RECURSIVE String(_)
String(value) ==
  IF value < 10 THEN Digits[value + 1]
  ELSE String(value \div 10) \o Digits[(value % 10) + 1]

EmptyAttributes == [path \in {} |-> ""]

\* The entries objectWalker(object, prefix) writes into eventAttributes.
RECURSIVE objectWalker(_, _)
objectWalker(object, prefix) ==
  LET entries(key) ==
        IF object[key].isObject
        THEN objectWalker(object[key].props, prefix \o key \o ".")
        ELSE [path \in {prefix \o key} |-> String(object[key].value)]
      paths == UNION {DOMAIN entries(key) : key \in DOMAIN object}
  IN [path \in paths |->
        LET key == CHOOSE k \in DOMAIN object : path \in DOMAIN entries(k)
        IN entries(key)[path]]

\* flatten creates eventAttributes, defines objectWalker and returns
\* eventAttributes; it has no call of objectWalker.
flatten(object, prefix) ==
  LET eventAttributes == EmptyAttributes
  IN eventAttributes

FlattenInit ==
  /\ ControllerUntouched
  /\ input \in Objects(MaxDepth)
  /\ output = <<>>

ApplyFlatten == Returned("flatten", flatten(input, ""))

FlattenNext == ApplyFlatten

FlattenSpec == FlattenInit /\ [][FlattenNext]_vars

\* ============================================================= claims
\* The operation that ran last started with a session active / with none
\* (an inert object holds no session key at all).
HadSession == last.pre.sessionKey \notin {NO_SESSION_KEY, UNDEFINED}
HadNoSession == last.pre.sessionKey = NO_SESSION_KEY

TeardownOps == {"detachPlayer", "cleanupSession", "releasePlayerStateManager"}

\* Everything of the controller but the metadata builder is as the operation
\* found it.
OnlyBuilderChanged ==
  /\ sessionKey = last.pre.sessionKey
  /\ isAd = last.pre.isAd
  /\ adBreakStartedToFire = last.pre.adBreakStartedToFire
  /\ lastSeenBitrate = last.pre.lastSeenBitrate
  /\ playerStateManager = last.pre.playerStateManager
  /\ stallTimerArmed = last.pre.stallTimerArmed
  /\ released = last.pre.released

\* C1: at most one session is open at any time: an operation calls
\* createSession at most once and only when it started without a session, and
\* initializeSession() with a session active makes no call and leaves the
\* session key and the rest of the controller unchanged.
C1_AtMostOneSession ==
  /\ Cardinality(openSessions) <= 1
  /\ (Positions(calls, "createSession") # {} =>
        /\ last.pre.sessionKey = NO_SESSION_KEY
        /\ Cardinality(Positions(calls, "createSession")) = 1)
  /\ (last.op = "initializeSession" /\ HadSession =>
        /\ calls = <<>>
        /\ last.unchanged
        /\ sessionKey = last.pre.sessionKey
        /\ openSessions = {sessionKey})

C1_Witness == last.op = "initializeSession" /\ HadSession /\ last.warned

\* C2 as claimed: initializeSession() with a session active signals an error
\* to its caller.
C2_InitWhileActiveSignalsError ==
  (last.op = "initializeSession" /\ HadSession) => last.threw # "none"

\* C2 as amended: initializeSession() with a session active logs a warning
\* and returns normally, signalling no error.
C2_InitWhileActiveWarns ==
  (last.op = "initializeSession" /\ HadSession) =>
     (last.threw = "none" /\ last.warned)

C2_Witness ==
  last.op = "initializeSession" /\ HadSession /\ last.threw = "none"
  /\ last.pre.source.loaded

\* C3: initializeSession() with no session, no source in the player and no
\* asset name among the overrides throws a usage error, creates no session,
\* obtains no player-state manager and leaves the session key at the sentinel.
C3_Case ==
  /\ last.op = "initializeSession" /\ constructed /\ HadNoSession
  /\ ~last.pre.source.loaded
  /\ last.pre.builder.overrides.assetName = NULL

C3_NoAssetNameFails ==
  C3_Case =>
    /\ last.threw = "usage"
    /\ Positions(calls, "createSession") = {}
    /\ Positions(calls, "getPlayerStateManager") = {}
    /\ playerStateManager = last.pre.playerStateManager
    /\ sessionKey = NO_SESSION_KEY
    /\ openSessions = {}

C3_Witness == C3_Case /\ last.threw = "usage" /\ calls = <<>>

\* C4: endSession() without a session makes no call and changes nothing; with
\* a session it calls detachPlayer, cleanupSession and
\* releasePlayerStateManager, in that order, for that session and its
\* manager, and leaves the sentinel key, a reset builder and no bitrate.
C4_EndSession ==
  /\ (last.op = "endSession" /\ HadNoSession => calls = <<>> /\ last.unchanged)
  /\ (last.op = "endSession" /\ HadSession =>
        /\ Len(calls) = 3
        /\ calls[1].op = "detachPlayer" /\ calls[1].key = last.pre.sessionKey
        /\ calls[2].op = "cleanupSession" /\ calls[2].key = last.pre.sessionKey
        /\ calls[3].op = "releasePlayerStateManager"
        /\ calls[3].psm = last.pre.playerStateManager
        /\ sessionKey = NO_SESSION_KEY
        /\ openSessions = {}
        /\ builder = NewBuilder
        /\ lastSeenBitrate = NO_BITRATE)

C4_Witness ==
  /\ last.op = "endSession" /\ HadSession
  /\ last.pre.lastSeenBitrate # NO_BITRATE
  /\ last.pre.builder.overrides.assetName # NULL
  /\ sessionKey = NO_SESSION_KEY

\* C5: updateContentMetadata(overrides) without a session makes no backend
\* call, opens no session and changes nothing but the recorded overrides.
C5_Case == last.op = "updateContentMetadata" /\ constructed /\ HadNoSession

C5_UpdateWithoutSessionOnlyRecords ==
  C5_Case =>
    /\ calls = <<>>
    /\ openSessions = {}
    /\ OnlyBuilderChanged
    /\ builder = [last.pre.builder EXCEPT !.overrides.assetName =
                    IF last.arg # NULL THEN last.arg ELSE @]

C5_Witness ==
  C5_Case /\ last.arg # NULL /\ last.pre.source.loaded
  /\ builder.overrides.assetName = last.arg

\* C6 as claimed: an asset-name override given while no session is active
\* stays in the builder until the next session is created, whatever player
\* event is handled in between, and is the asset name that session is
\* created with.
C6_HeldOverridesReachNextSession ==
  /\ (constructed /\ ~released /\ sessionKey = NO_SESSION_KEY /\ heldOverrides # NULL =>
        builder.overrides.assetName = heldOverrides)
  /\ \A i \in Positions(calls, "createSession") :
        last.pre.heldOverrides # NULL =>
          calls[i].meta.assetName = last.pre.heldOverrides

\* C7: reportPlaybackDeficiency without a session makes no call and opens no
\* session; with a session it reports the error once, against that session's
\* key, and then the session is ended when endSession is true and the key is
\* unchanged when it is false.
C7_ReportPlaybackDeficiency ==
  /\ (last.op = "reportPlaybackDeficiency" /\ HadNoSession =>
        calls = <<>> /\ last.unchanged /\ openSessions = {})
  /\ (last.op = "reportPlaybackDeficiency" /\ HadSession =>
        /\ Len(calls) >= 1
        /\ calls[1].op = "reportError"
        /\ calls[1].key = last.pre.sessionKey
        /\ calls[1].arg = last.arg
        /\ Positions(calls, "reportError") = {1}
        /\ (last.flag => sessionKey = NO_SESSION_KEY /\ openSessions = {})
        /\ (~last.flag => /\ sessionKey = last.pre.sessionKey
                          /\ Len(calls) = 1
                          /\ openSessions = {sessionKey}))

C7_Witness ==
  last.op = "reportPlaybackDeficiency" /\ HadSession /\ ~last.flag
  /\ sessionKey = last.pre.sessionKey

\* C8 as claimed: a source-unloaded event handled with a session active
\* always leaves no session active.
C8_SourceUnloadedEndsSession ==
  (last.op = "SourceUnloaded" /\ last.delivered /\ HadSession) =>
     sessionKey = NO_SESSION_KEY

\* C8 as amended: a source-unloaded event handled with a session active ends
\* the session when the ad-active flag is not set; while the flag is set the
\* event is ignored and the session stays as it is.
C8_SourceUnloadedEndsSessionOutsideAds ==
  /\ (last.op = "SourceUnloaded" /\ last.delivered /\ HadSession /\ ~last.pre.isAd =>
        sessionKey = NO_SESSION_KEY /\ openSessions = {})
  /\ (last.op = "SourceUnloaded" /\ last.delivered /\ HadSession /\ last.pre.isAd =>
        calls = <<>> /\ last.unchanged /\ openSessions = {sessionKey})

C8_Witness ==
  last.op = "SourceUnloaded" /\ last.delivered /\ HadSession /\ ~last.pre.isAd
  /\ sessionKey = NO_SESSION_KEY

\* C9: release() removes every registered handler from the player before any
\* teardown call; when it returns no handler is registered and no session is
\* active; from then on no handler is registered, and a player event emitted
\* after release reaches no callback, changes nothing of the controller and
\* makes no backend call.
C9_ReleaseUnregistersFirst ==
  /\ (last.op = "release" /\ constructed =>
        /\ released /\ listeners = {}
        /\ \A k \in 1..Len(eventHandlers) : eventHandlers[k].callbacks = <<>>
        /\ sessionKey = NO_SESSION_KEY /\ openSessions = {}
        /\ (~last.pre.released =>
              \A k \in 1..Len(Registration) :
                 \E i \in Positions(calls, "off") : calls[i].arg = Registration[k][1])
        /\ \A i \in Positions(calls, "off"), j \in 1..Len(calls) :
              calls[j].op \in TeardownOps => i < j)
  /\ (released => listeners = {})
  /\ (last.op \in EventTypes /\ last.pre.released =>
        ~last.delivered /\ last.unchanged /\ calls = <<>>)

C9_Witness ==
  last.op = "release" /\ constructed /\ HadSession /\ released /\ listeners = {}

\* C10 as claimed: pauseTracking() and resumeTracking() without a session
\* make no backend call and change nothing.
C10_PauseResumeWithoutSessionAreNoOps ==
  (last.op \in {"pauseTracking", "resumeTracking"} /\ HadNoSession) =>
     (calls = <<>> /\ last.unchanged)

\* C11: sendCustomApplicationEvent changes nothing of the controller, every
\* call it makes is a sendCustomEvent with the no-session key, and on a
\* constructed instance it makes exactly one; sendCustomPlaybackEvent with a
\* session active makes exactly one sendCustomEvent call, with that session's
\* key, and with no session active it makes no call; neither changes the
\* session.
C11_CustomEventsCarryRightKey ==
  /\ (last.op = "sendCustomApplicationEvent" =>
        /\ last.unchanged
        /\ \A i \in 1..Len(calls) :
              calls[i].op = "sendCustomEvent" /\ calls[i].key = NO_SESSION_KEY
        /\ (constructed => Len(calls) = 1))
  /\ (last.op = "sendCustomPlaybackEvent" /\ HadSession =>
        /\ last.unchanged
        /\ Len(calls) = 1
        /\ calls[1].op = "sendCustomEvent"
        /\ calls[1].key = last.pre.sessionKey)
  /\ (last.op = "sendCustomPlaybackEvent" /\ ~HadSession =>
        calls = <<>> /\ last.unchanged)

C11_Witness ==
  /\ last.op = "sendCustomPlaybackEvent" /\ HadSession
  /\ Len(calls) = 1 /\ calls[1].key = last.pre.sessionKey

\* C12 as claimed: a play event handled while no session is active, on a
\* player that has a source to play, leaves a session active, also when an
\* earlier session of the instance has ended before.
C12_PlayOpensSession ==
  (last.op = "Play" /\ last.delivered /\ HadNoSession /\ last.pre.source.loaded) =>
     sessionKey # NO_SESSION_KEY

\* C13 as claimed: an instance constructed while the Conviva script is not
\* loaded has no player-event handler registered, and initializeSession() on
\* it makes no backend call, changes no state and does not fail.
C13_InertInitializeSessionHasNoEffect ==
  /\ (~convivaLoaded => listeners = {} /\ eventHandlers = EmptyHandlers)
  /\ (last.op = "initializeSession" /\ ~convivaLoaded =>
        calls = <<>> /\ last.unchanged /\ last.threw = "none")

AdStarts == {i \in 1..Len(calls) : calls[i].op = "adStart"}

\* C14 as claimed: a pre-roll ad break announced while no session is active
\* has its adStart issued exactly once, during the first playing event
\* delivered after it, and by no other replay.
C14_PendingAdBreakReplayedAtFirstPlaying ==
  /\ (last.op = "Playing" /\ last.delivered /\ last.pre.history.adBreakWait = "fresh" =>
        Cardinality(AdStarts) = 1)
  /\ (last.op = "Playing" /\ last.delivered /\ last.pre.history.adBreakWait # "fresh" =>
        AdStarts = {})

\* C14 as amended: a pre-roll ad break announced while no session is active
\* has its adStart issued exactly once, against the active session, during
\* the first playing event after it that is handled with a session active
\* and the ad-active flag not set; a playing event handled with no session
\* or during an ad replays nothing and leaves the ad break pending; no
\* playing event replays it a second time, and no other event replays it.
C14_PendingAdBreakReplayedAtFirstTrackedPlaying ==
  /\ (last.op = "Playing" /\ last.delivered /\ HadSession /\ ~last.pre.isAd
      /\ last.pre.history.adBreakWait # "none" =>
        /\ Cardinality(AdStarts) = 1
        /\ \A i \in AdStarts : calls[i].key = sessionKey /\ calls[i].key # NO_SESSION_KEY
        /\ ~adBreakStartedToFire.pending
        /\ history.adBreakWait = "none")
  /\ (last.op = "Playing" /\ last.delivered /\ (HadNoSession \/ last.pre.isAd) =>
        /\ AdStarts = {}
        /\ adBreakStartedToFire = last.pre.adBreakStartedToFire)
  /\ (last.op = "Playing" /\ last.pre.history.adBreakWait = "none" => AdStarts = {})
  /\ (AdStarts # {} =>
        \/ last.op = "Playing"
        \/ last.op = "AdBreakStarted" /\ HadSession
        \/ last.op = "pauseTracking")
  /\ (history.adBreakWait # "none" <=> adBreakStartedToFire.pending)

C14_Witness ==
  /\ last.op = "Playing" /\ last.delivered /\ HadSession /\ ~last.pre.isAd
  /\ last.pre.history.adBreakWait = "stale"
  /\ Cardinality(AdStarts) = 1

\* C15: an ad-break-started event scheduled at the end of the stream makes no
\* adStart call, does not set the ad-active flag and stores no pending ad
\* break; a session active when it arrives is ended by the handler, and with
\* no session active the handler does nothing.
C15_PostRollEndsSession ==
  (last.op = "AdBreakStarted" /\ last.arg = "postroll" /\ last.delivered) =>
     /\ AdStarts = {}
     /\ isAd = last.pre.isAd
     /\ adBreakStartedToFire = last.pre.adBreakStartedToFire
     /\ (HadSession =>
           /\ sessionKey = NO_SESSION_KEY
           /\ openSessions = {}
           /\ \E i \in Positions(calls, "cleanupSession") :
                calls[i].key = last.pre.sessionKey)
     /\ (HadNoSession => calls = <<>> /\ last.unchanged)

C15_Witness ==
  /\ last.op = "AdBreakStarted" /\ last.arg = "postroll" /\ last.delivered
  /\ HadSession /\ sessionKey = NO_SESSION_KEY /\ AdStarts = {} /\ ~isAd

\* C16 as claimed: once a seeked, time-shifted, playing, paused or
\* stall-ended event has been delivered after the play, seek or time-shift
\* event that started the stall timer, and no play, seek or time-shift event
\* was delivered since, the timer does not fire and report BUFFERING.
C16_ResolvedStallNotReported ==
  (last.op = "stallTimer" /\ last.pre.history.stallResolved) =>
     \A i \in Positions(calls, "setPlayerState") : calls[i].arg # "BUFFERING"

\* C17 as claimed: an event handler or a firing of the stall timer that
\* starts while the ad-active flag is set reports no playback state to the
\* player-state manager.
C17_NoPlaybackStateDuringAd ==
  last.pre.isAd => Positions(calls, "setPlayerState") = {}

\* C18 as claimed: after an ad-break-finished, ad-skipped or ad-error event
\* has been handled the ad-active flag is not set.
C18_AdFlagClearedByFinishSkipError ==
  (last.op \in {"AdBreakFinished", "AdSkipped", "AdError"} /\ last.delivered) => ~isAd

\* C19 as claimed: a session created after a quality change was delivered
\* with no session active receives that bitrate, in kbps, through exactly one
\* setBitrateKbps call made after its createSession in the same operation,
\* whatever was handled in between; a session created with no such quality
\* change outstanding receives no bitrate during its creation.
C19_StashedBitrateReachesNextSession ==
  \A i \in Positions(calls, "createSession") :
     IF last.pre.history.stash # NO_BITRATE
       THEN /\ Cardinality(Positions(calls, "setBitrateKbps")) = 1
            /\ \A j \in Positions(calls, "setBitrateKbps") :
                  j > i /\ calls[j].n = last.pre.history.stash
       ELSE Positions(calls, "setBitrateKbps") = {}

\* The error report of the operation that ran last: one reportError call,
\* FATAL, against the session that was active or was created for it, with
\* the session created before it when none was active and torn down after it.
ErrorReportedOnce ==
  /\ Cardinality(Positions(calls, "reportError")) = 1
  /\ \A i \in Positions(calls, "reportError") :
        /\ calls[i].arg = "FATAL"
        /\ calls[i].key # NO_SESSION_KEY
        /\ (HadSession =>
              calls[i].key = last.pre.sessionKey /\ Positions(calls, "createSession") = {})
        /\ (HadNoSession =>
              /\ Cardinality(Positions(calls, "createSession")) = 1
              /\ \A c \in Positions(calls, "createSession") :
                    c < i /\ calls[c].key = calls[i].key)
        /\ \E d \in Positions(calls, "detachPlayer"), c \in Positions(calls, "cleanupSession") :
              i < d /\ d < c /\ calls[d].key = calls[i].key /\ calls[c].key = calls[i].key

\* C20 as claimed: a player error event that was handled leaves no session
\* active and has reported the error exactly once, with FATAL severity and
\* against a session key that is not the sentinel, creating the session first
\* when none was active and tearing it down afterwards.
C20_ErrorReportsAndEndsSession ==
  (last.op = "Error" /\ last.delivered) =>
     sessionKey = NO_SESSION_KEY /\ ErrorReportedOnce

\* No asset name can be resolved for a session created now: no source is
\* loaded and no asset name was given as an override.
NoAssetNameBefore == ~last.pre.source.loaded /\ buildFails(last.pre.builder)

\* The operation called createSession and was handed the sentinel key.
CreateRefused ==
  \E i \in Positions(calls, "createSession") : calls[i].key = NO_SESSION_KEY

\* C20 as amended: a player error event that was handled always leaves no
\* session active; when a session was active, or one is created because an
\* asset name can be resolved and createSession hands out a key, the error is
\* reported exactly once as in the claim; when no session was active and no
\* asset name can be resolved, session creation fails, the handler stops and
\* no error is reported; when createSession returns the sentinel key, no
\* error is reported and nothing is torn down.
C20_ErrorReportsWhenSessionCanBeCreated ==
  (last.op = "Error" /\ last.delivered) =>
     /\ sessionKey = NO_SESSION_KEY
     /\ openSessions = {}
     /\ (HadSession \/ (~NoAssetNameBefore /\ ~CreateRefused) =>
           last.threw = "none" /\ ErrorReportedOnce)
     /\ (HadNoSession /\ NoAssetNameBefore =>
           /\ last.threw = "usage"
           /\ Positions(calls, "createSession") = {}
           /\ Positions(calls, "reportError") = {})
     /\ (HadNoSession /\ CreateRefused =>
           /\ last.threw = "none"
           /\ Positions(calls, "reportError") = {}
           /\ \A i \in 1..Len(calls) : calls[i].op \notin TeardownOps)

C20_Witness ==
  /\ last.op = "Error" /\ last.delivered /\ HadNoSession /\ ~NoAssetNameBefore
  /\ sessionKey = NO_SESSION_KEY /\ ErrorReportedOnce

\* C21 as claimed: a playback-finished event handled with a session active
\* leaves the stall timer stopped and no session active, and has reported
\* STOPPED to the player-state manager before the teardown calls.
C21_PlaybackFinishedStopsThenEnds ==
  (last.op = "PlaybackFinished" /\ last.delivered /\ HadSession) =>
     /\ ~stallTimerArmed
     /\ sessionKey = NO_SESSION_KEY
     /\ \E i \in Positions(calls, "setPlayerState") :
          /\ calls[i].arg = "STOPPED"
          /\ \A j \in 1..Len(calls) : calls[j].op \in TeardownOps => i < j

\* C22 as claimed: cleanupSession and detachPlayer are never called with the
\* no-session key, and an operation that starts with no session active and
\* creates none runs no teardown call (and so no reset of the metadata).
C22_TeardownOnlyForActiveSession ==
  /\ \A i \in 1..Len(calls) :
        calls[i].op \in {"cleanupSession", "detachPlayer"} => calls[i].key # NO_SESSION_KEY
  /\ (HadNoSession /\ Positions(calls, "createSession") = {} =>
        \A i \in 1..Len(calls) : calls[i].op \notin TeardownOps)

\* C23 as claimed: an operation that starts with no session active and
\* creates none, the stall timer firing included, reports no playback state
\* to the player-state manager.
C23_NoPlaybackStateWithoutSession ==
  (HadNoSession /\ Positions(calls, "createSession") = {}) =>
     Positions(calls, "setPlayerState") = {}

\* C24 as claimed: after clear() no callback is registered with the player
\* and the registry is empty, however many callbacks were added to however
\* many event types; a clear() that follows a clear() calls player.off for
\* nothing and changes nothing.
C24_ClearUnregistersEverything ==
  /\ (last.op = "clear" =>
        /\ listeners = {}
        /\ \A k \in 1..Len(eventHandlers) : eventHandlers[k].callbacks = <<>>)
  /\ (last.op = "clear" /\ last.flag => calls = <<>> /\ last.unchanged)

\* C25 as claimed: the ad-break-finished handler issues adEnd only when an
\* ad-break handler has issued adStart for the running session and no adEnd
\* since, and an ad-break handler issues adStart only when no such adStart
\* is outstanding, and then only one.
C25_AdCallsPaired ==
  /\ (last.op = "AdBreakFinished" /\ Positions(calls, "adEnd") # {} =>
        last.pre.history.adOpen)
  /\ (last.op \in {"AdBreakStarted", "Playing"} /\ AdStarts # {} =>
        ~last.pre.history.adOpen /\ Cardinality(AdStarts) = 1)

\* C26 as claimed: a playing event does not replay a deferred ad break that
\* is stale, i.e. one after whose announcement an ad-break-finished event
\* was handled or a session was ended: it issues no adStart and does not set
\* the ad-active flag.
C26_StaleAdBreakNotReplayed ==
  (last.op = "Playing" /\ last.pre.history.adBreakWait = "expired") =>
     AdStarts = {} /\ (isAd => last.pre.isAd)

\* C27: for every schedule time and duration mapAdPosition returns PREROLL
\* when the schedule time is at most 0, otherwise POSTROLL when it is at
\* least the duration (Infinity included), otherwise MIDROLL; so it returns
\* one of the three for every input, PREROLL for schedule time 0, POSTROLL
\* for a schedule time equal to a positive duration and MIDROLL strictly
\* between 0 and the duration.
C27_AdPositionClassification ==
  last.op = "mapAdPosition" =>
     LET scheduleTime == input[1]
         duration == input[2]
     IN /\ output \in {"PREROLL", "POSTROLL", "MIDROLL"}
        /\ (output = "PREROLL" <=> scheduleTime <= 0)
        /\ (output = "POSTROLL" <=> scheduleTime > 0 /\ scheduleTime >= duration)
        /\ (output = "MIDROLL" <=> 0 < scheduleTime /\ scheduleTime < duration)
        /\ (scheduleTime = 0 => output = "PREROLL")
        /\ (scheduleTime = duration /\ duration > 0 => output = "POSTROLL")
        /\ (scheduleTime = INFINITY => output = "POSTROLL")

C27_Witness ==
  /\ last.op = "mapAdPosition"
  /\ input[1] = input[2] /\ input[2] > 0 /\ input[2] # INFINITY
  /\ output = "POSTROLL"

\* C28: ObjectUtils.flatten(object) returns the map that has, for every
\* non-object leaf property of the object, an entry keyed by the leaf's
\* dot-separated property path whose value is the stringified leaf.
C28_FlattenReturnsEveryLeaf ==
  last.op = "flatten" => output = objectWalker(input, "")
====
